---------------------------- MODULE Spec2Model ----------------------------
(***************************************************************************)
(* Model of the mask editor (src/main.py): the colour resolver, the mask   *)
(* extractor, the overlay renderer, the mask importer, the three derived   *)
(* views and the event wiring that connects them to the editing surface.   *)
(*                                                                         *)
(* Strings are sequences of one-character strings, so that prefix tests,   *)
(* strip, split and number parsing are computed character by character.    *)
(* A call that raises is modelled by an outcome whose err field names the  *)
(* exception; err = "none" is a normal return.                             *)
(***************************************************************************)
EXTENDS Integers, Sequences, FiniteSets, TLC

VARIABLES
    canvas,                 \* value of the ImageEditor: [background, layers]
    mask_color,             \* value of the ColorPicker (a string)
    mask_image,             \* value of the mask Image component
    mask_visibility_image,  \* displayed output 1
    agnostic_image,         \* displayed output 2
    output_mask,            \* displayed output 3
    queue,                  \* handler invocations triggered and not yet run
    nevents,                \* number of user events so far
    call                    \* the last direct call of a function and its outcome

vars == <<canvas, mask_color, mask_image, mask_visibility_image,
          agnostic_image, output_mask, queue, nevents, call>>

-----------------------------------------------------------------------------
(* Outcomes of calls *)

Ok(v) == [err |-> "none", val |-> v]

Raise(e) == [err |-> e, val |-> <<>>]

-----------------------------------------------------------------------------
(* Characters and Python string methods *)

Digits == {"0", "1", "2", "3", "4", "5", "6", "7", "8", "9"}

DigitVal ==
    ("0" :> 0) @@ ("1" :> 1) @@ ("2" :> 2) @@ ("3" :> 3) @@ ("4" :> 4) @@
    ("5" :> 5) @@ ("6" :> 6) @@ ("7" :> 7) @@ ("8" :> 8) @@ ("9" :> 9)

HexDigits == Digits \cup {"a", "b", "c", "d", "e", "f"}

HexVal ==
    DigitVal @@ ("a" :> 10) @@ ("b" :> 11) @@ ("c" :> 12) @@ ("d" :> 13) @@
    ("e" :> 14) @@ ("f" :> 15)

UpperToLower ==
    ("A" :> "a") @@ ("B" :> "b") @@ ("C" :> "c") @@ ("D" :> "d") @@
    ("E" :> "e") @@ ("F" :> "f") @@ ("R" :> "r") @@ ("G" :> "g")

\* str.lower()
Lower(s) ==
    [i \in 1..Len(s) |-> IF s[i] \in DOMAIN UpperToLower THEN UpperToLower[s[i]] ELSE s[i]]

\* str.startswith(p)
StartsWith(s, p) == Len(s) >= Len(p) /\ SubSeq(s, 1, Len(p)) = p

RECURSIVE LStrip(_, _)
LStrip(s, chars) ==
    IF s # <<>> /\ Head(s) \in chars THEN LStrip(Tail(s), chars) ELSE s

RECURSIVE RStrip(_, _)
RStrip(s, chars) ==
    IF s # <<>> /\ s[Len(s)] \in chars THEN RStrip(SubSeq(s, 1, Len(s) - 1), chars) ELSE s

\* str.strip(chars): drops leading and trailing characters that are in chars
Strip(s, chars) == RStrip(LStrip(s, chars), chars)

Whitespace == {" "}

RECURSIVE SplitFrom(_, _, _)
SplitFrom(s, sep, cur) ==
    IF s = <<>> THEN <<cur>>
    ELSE IF Head(s) = sep THEN <<cur>> \o SplitFrom(Tail(s), sep, <<>>)
    ELSE SplitFrom(Tail(s), sep, Append(cur, Head(s)))

\* str.split(sep) for a one-character separator: n separators give n+1 fields
Split(s, sep) == SplitFrom(s, sep, <<>>)

AllDigits(s) == s # <<>> /\ \A i \in 1..Len(s) : s[i] \in Digits

RECURSIVE DecVal(_)
DecVal(s) == IF s = <<>> THEN 0 ELSE 10 * DecVal(SubSeq(s, 1, Len(s) - 1)) + DigitVal[s[Len(s)]]

\* int(s) for a string the regular expression matched as \d+
IntOfDigits(s) == DecVal(s)

\* float(s) for the literals  [sign] digits [. digits]  and  [sign] . digits ;
\* any other text over the modelled alphabet is a ValueError.  The value is
\* kept as its sign and integer part, which is all that int() reads.
PyFloat(s) ==
    LET t     == Strip(s, Whitespace)
        neg   == t # <<>> /\ Head(t) = "-"
        body  == IF t # <<>> /\ Head(t) \in {"-", "+"} THEN Tail(t) ELSE t
        parts == Split(body, ".")
        ip    == parts[1]
        fp    == IF Len(parts) = 2 THEN parts[2] ELSE <<>>
        digitsOnly(x) == \A i \in 1..Len(x) : x[i] \in Digits
    IN  IF /\ Len(parts) <= 2
           /\ digitsOnly(ip) /\ digitsOnly(fp)
           /\ (ip # <<>> \/ fp # <<>>)
        THEN Ok([neg |-> neg, int |-> DecVal(ip)])
        ELSE Raise("ValueError")

\* int(x) of a float: truncation toward zero
PyIntOfFloat(f) == IF f.neg THEN 0 - f.int ELSE f.int

-----------------------------------------------------------------------------
(* ColorResolver: str_color_to_rgb and the library call it makes *)

\* The colour names of the library's table that the modelled inputs can spell.
colormap ==
    (<<"r", "e", "d">> :> <<255, 0, 0>>) @@
    (<<"b", "l", "u", "e">> :> <<0, 0, 255>>)

HexByte(h, l) == 16 * HexVal[h] + HexVal[l]

IsHexForm(c, n) ==
    /\ Len(c) = n + 1
    /\ c[1] = "#"
    /\ \A i \in 2..Len(c) : c[i] \in HexDigits

\* The fields of  name( f1 , f2 , ... )  when c has that shape, else <<>>.
FunctionalFields(c, prefix) ==
    IF StartsWith(c, prefix) /\ Len(c) > Len(prefix) /\ c[Len(c)] = ")"
    THEN LET inner == Split(SubSeq(c, Len(prefix) + 1, Len(c) - 1), ",")
         IN  [i \in 1..Len(inner) |-> Strip(inner[i], Whitespace)]
    ELSE <<>>

\* ImageColor.getcolor(color, "RGB"): colour name, #rgb, #rgba, #rrggbb,
\* #rrggbbaa, rgb(int,int,int), rgba(int,int,int,int); the alpha of a
\* four-component result is dropped; anything else is a ValueError.
\* (The percent, hsl and hsv forms need characters the inputs never hold.)
ImageColor_getcolor(color) ==
    LET c     == Lower(color)
        rgb   == FunctionalFields(c, <<"r", "g", "b", "(">>)
        rgba  == FunctionalFields(c, <<"r", "g", "b", "a", "(">>)
    IN  IF c \in DOMAIN colormap THEN Ok(colormap[c])
        ELSE IF IsHexForm(c, 3) \/ IsHexForm(c, 4)
            THEN Ok(<<HexByte(c[2], c[2]), HexByte(c[3], c[3]), HexByte(c[4], c[4])>>)
        ELSE IF IsHexForm(c, 6) \/ IsHexForm(c, 8)
            THEN Ok(<<HexByte(c[2], c[3]), HexByte(c[4], c[5]), HexByte(c[6], c[7])>>)
        ELSE IF Len(rgb) = 3 /\ \A i \in 1..3 : AllDigits(rgb[i])
            THEN Ok(<<IntOfDigits(rgb[1]), IntOfDigits(rgb[2]), IntOfDigits(rgb[3])>>)
        ELSE IF Len(rgba) = 4 /\ \A i \in 1..4 : AllDigits(rgba[i])
            THEN Ok(<<IntOfDigits(rgba[1]), IntOfDigits(rgba[2]), IntOfDigits(rgba[3])>>)
        ELSE Raise("ValueError")

DefaultColor == <<0, 0, 255>>

\* The characters of the argument of strip("rgba()")
RgbaStripChars == {"r", "g", "b", "a", "(", ")"}

\* rgba_values[i].strip() -> float -> int, for the i-th field (0-based in the
\* code, 1-based here); a missing field is an IndexError.
RgbaChannel(rgba_values, i) ==
    IF i > Len(rgba_values) THEN Raise("IndexError")
    ELSE LET f == PyFloat(Strip(rgba_values[i], Whitespace))
         IN  IF f.err # "none" THEN f ELSE Ok(PyIntOfFloat(f.val))

\* The manual parse of the except branch: statements run in order, the first
\* exception leaves the function.
ParseRgbaManually(str_color) ==
    LET rgba_values == Split(Strip(str_color, RgbaStripChars), ",")
        r == RgbaChannel(rgba_values, 1)
        g == RgbaChannel(rgba_values, 2)
        b == RgbaChannel(rgba_values, 3)
    IN  IF r.err # "none" THEN Raise(r.err)
        ELSE IF g.err # "none" THEN Raise(g.err)
        ELSE IF b.err # "none" THEN Raise(b.err)
        ELSE Ok(<<r.val, g.val, b.val>>)

str_color_to_rgb(str_color) ==
    LET first == ImageColor_getcolor(str_color)
    IN  IF first.err = "none" THEN first
        ELSE IF StartsWith(str_color, <<"r", "g", "b", "a", "(">>)
            THEN ParseRgbaManually(str_color)
        ELSE Ok(DefaultColor)

-----------------------------------------------------------------------------
(* Raster images: a mode ("RGB", "RGBA" or "L") and the rows of pixels, as  *)
(* np.array(image) lays them out: rows[y][x] is the pixel in row y, column *)
(* x; an RGB or RGBA pixel is a tuple of channels, an L pixel is a number. *)

Height(image) == Len(image.rows)

Width(image) == Len(image.rows[1])

SameSize(a, b) == Height(a) = Height(b) /\ Width(a) = Width(b)

\* Image.new("RGBA", (width, height), 0)
Image_new_RGBA(width, height) ==
    LET zero(y, x) == <<0, 0, 0, 0>>
    IN  [mode |-> "RGBA", rows |-> [y \in 1..height |-> [x \in 1..width |-> zero(y, x)]]]

\* image.convert("RGBA") of an RGB image adds an opaque alpha channel
ConvertToRGBA(image) ==
    IF image.mode = "RGBA" THEN image
    ELSE LET px(y, x) == LET p == image.rows[y][x] IN <<p[1], p[2], p[3], 255>>
         IN  [mode |-> "RGBA", rows |-> [y \in 1..Height(image) |-> [x \in 1..Width(image) |-> px(y, x)]]]

\* image.convert("RGB") keeps the three colour channels and drops alpha
ConvertToRGB(image) ==
    LET px(y, x) == LET p == image.rows[y][x] IN <<p[1], p[2], p[3]>>
    IN  [mode |-> "RGB", rows |-> [y \in 1..Height(image) |-> [x \in 1..Width(image) |-> px(y, x)]]]

\* The luminance of image.convert("L") for an RGB pixel (ITU-R 601-2, in
\* 16-bit fixed point with rounding)
Luminance(p) == (p[1] * 19595 + p[2] * 38470 + p[3] * 7471 + 32768) \div 65536

\* np.array(mask_image.convert("L"))
ConvertToL(image) ==
    LET px(y, x) == Luminance(image.rows[y][x])
    IN  [mode |-> "L", rows |-> [y \in 1..Height(image) |-> [x \in 1..Width(image) |-> px(y, x)]]]

-----------------------------------------------------------------------------
(* MaskExtractor *)

\* Variant: any painted pixel counts, whatever its opacity
extract_mask_AnyAlpha(cv) ==
    IF cv.layers # <<>>
    THEN LET mask_layer == cv.layers[1]
             painted(y, x) == mask_layer.rows[y][x][4] > 0
         IN  [y \in 1..Height(mask_layer) |-> [x \in 1..Width(mask_layer) |-> painted(y, x)]]
    ELSE LET no(y, x) == FALSE
         IN  [y \in 1..Height(cv.background) |-> [x \in 1..Width(cv.background) |-> no(y, x)]]

extract_mask(cv) ==
    IF cv.layers # <<>>
    THEN LET mask_layer == cv.layers[1]
             opaque(y, x) == mask_layer.rows[y][x][4] = 255
         IN  [y \in 1..Height(mask_layer) |-> [x \in 1..Width(mask_layer) |-> opaque(y, x)]]
    ELSE LET no(y, x) == FALSE
         IN  [y \in 1..Height(cv.background) |-> [x \in 1..Width(cv.background) |-> no(y, x)]]

-----------------------------------------------------------------------------
(* OverlayRenderer *)

\* The rounded division by 255 of the compositing routine
ShiftForDiv255(a) == ((a \div 256) + a) \div 256

\* One pixel of Image.alpha_composite(dst, src): src over dst, in integer
\* arithmetic with 7 extra bits of precision
AlphaCompositePixel(dst, src) ==
    IF src[4] = 0 THEN dst
    ELSE LET blend   == dst[4] * (255 - src[4])
             outa255 == src[4] * 255 + blend
             coef1   == (src[4] * 255 * 255 * 128) \div outa255
             coef2   == 255 * 128 - coef1
             ch(i)   == ShiftForDiv255(src[i] * coef1 + dst[i] * coef2 + 128 * 128) \div 128
         IN  <<ch(1), ch(2), ch(3), ShiftForDiv255(outa255 + 128)>>

\* Image.alpha_composite(im1, im2): both RGBA, and of one size
Image_alpha_composite(im1, im2) ==
    IF ~SameSize(im1, im2) THEN Raise("ValueError")
    ELSE LET px(y, x) == AlphaCompositePixel(im1.rows[y][x], im2.rows[y][x])
         IN  Ok([mode |-> "RGBA", rows |-> [y \in 1..Height(im1) |-> [x \in 1..Width(im1) |-> px(y, x)]]])

IsByte(v) == v \in 0..255

\* int(transparency * 255), the transparency given in tenths
OverlayAlpha(tenths) == (tenths * 255) \div 10

\* Variant: the alpha is written to the whole buffer, not only under the mask
overlayer_AlphaEverywhere(mask, image, rgb_mask_color, transparency) ==
    LET value == <<rgb_mask_color[1], rgb_mask_color[2], rgb_mask_color[3],
                   OverlayAlpha(transparency)>>
        cell(y, x) == IF mask[y][x] THEN value ELSE <<0, 0, 0, OverlayAlpha(transparency)>>
        mask_img == [mode |-> "RGBA",
                     rows |-> [y \in 1..Len(mask) |-> [x \in 1..Len(mask[1]) |-> cell(y, x)]]]
        result == Image_alpha_composite(ConvertToRGBA(image), mask_img)
    IN  IF result.err # "none" THEN result ELSE Ok(ConvertToRGB(result.val))

\* transparency is in tenths (7 is the default 0.7, 10 is the 1 of the
\* agnostic view).  A colour channel that is no 8-bit value does not fit the
\* uint8 buffer: NumPy 2 raises OverflowError on the assignment (NumPy 1
\* stored it modulo 256); no specification below passes such a colour.
apply_mask_as_transparent_overlayer(mask, image, rgb_mask_color, transparency) ==
    LET value == <<rgb_mask_color[1], rgb_mask_color[2], rgb_mask_color[3],
                   OverlayAlpha(transparency)>>
        cell(y, x) == IF mask[y][x] THEN value ELSE <<0, 0, 0, 0>>
        mask_img == [mode |-> "RGBA",
                     rows |-> [y \in 1..Len(mask) |-> [x \in 1..Len(mask[1]) |-> cell(y, x)]]]
        result == Image_alpha_composite(ConvertToRGBA(image), mask_img)
    IN  IF \E i \in 1..3 : ~IsByte(rgb_mask_color[i]) THEN Raise("OverflowError")
        ELSE IF result.err # "none" THEN result
        ELSE Ok(ConvertToRGB(result.val))

-----------------------------------------------------------------------------
(* Derived views *)

canvas_to_mask_visibility(cv, color) ==
    LET original_image == cv.background
        mask == extract_mask(cv)
        rgb_mask_color == str_color_to_rgb(color)
    IN  IF rgb_mask_color.err # "none" THEN rgb_mask_color
        ELSE apply_mask_as_transparent_overlayer(mask, original_image, rgb_mask_color.val, 7)

\* Variant: the opacity argument is left out, so the default 0.7 applies
canvas_to_agnostic_DefaultOpacity(cv) ==
    apply_mask_as_transparent_overlayer(extract_mask(cv), cv.background, <<128, 128, 128>>, 7)

canvas_to_agnostic(cv) ==
    apply_mask_as_transparent_overlayer(extract_mask(cv), cv.background, <<128, 128, 128>>, 10)

\* Variant: the mask is cast to uint8 and not scaled to 255
canvas_to_mask_Unscaled(cv) ==
    LET mask == extract_mask(cv)
        px(y, x) == IF mask[y][x] THEN 1 ELSE 0
    IN  Ok([mode |-> "L", rows |-> [y \in 1..Len(mask) |-> [x \in 1..Len(mask[1]) |-> px(y, x)]]])

\* Image.fromarray(mask.astype(np.uint8) * 255): a single-channel image
canvas_to_mask(cv) ==
    LET mask == extract_mask(cv)
        px(y, x) == (IF mask[y][x] THEN 1 ELSE 0) * 255
    IN  Ok([mode |-> "L", rows |-> [y \in 1..Len(mask) |-> [x \in 1..Len(mask[1]) |-> px(y, x)]]])

-----------------------------------------------------------------------------
(* MaskImporter *)

\* np.all(np.array(canvas["background"]) == 0)
IsCanvasEmpty(cv) ==
    \A y \in 1..Height(cv.background) : \A x \in 1..Width(cv.background) :
        \A c \in DOMAIN cv.background.rows[y][x] : cv.background.rows[y][x][c] = 0

\* The layer built from the mask image: gray and opaque where the luminance
\* is 255, transparent elsewhere
MaskLayer(mimg) ==
    LET lum == ConvertToL(mimg)
        px(y, x) == IF lum.rows[y][x] = 255 THEN <<128, 128, 128, 255>> ELSE <<0, 0, 0, 0>>
    IN  [mode |-> "RGBA", rows |-> [y \in 1..Height(mimg) |-> [x \in 1..Width(mimg) |-> px(y, x)]]]

\* canvas["layers"][0] = value: assignment to index 0 of a Python list
ListSetFirst(list, value) ==
    IF list = <<>> THEN Raise("IndexError")
    ELSE Ok([list EXCEPT ![1] = value])

\* The background after the emptiness check of lines 146-151
BackgroundAfterCheck(mimg, cv) ==
    IF IsCanvasEmpty(cv) THEN Image_new_RGBA(Width(mimg), Height(mimg)) ELSE cv.background

\* The background is assigned first; the assignment to layers[0] then either
\* raises, and nothing is returned, or the surface is returned.
apply_mask_to_layer(mimg, cv) ==
    LET layers == ListSetFirst(cv.layers, MaskLayer(mimg))
    IN  IF layers.err # "none" THEN layers
        ELSE Ok([background |-> BackgroundAfterCheck(mimg, cv), layers |-> layers.val])

-----------------------------------------------------------------------------
(* Bounds and the sets the inputs are drawn from *)

MaxSide == 2      \* largest width and height of an image

MaxArea == 4      \* largest number of pixels of an image

MaxLayers == 2    \* largest number of layers of a surface

MaxFields == 4    \* largest number of comma-separated fields of a colour string

MaxEvents == 2    \* largest number of user events of one session

\* <<width, height>>
Sizes == {s \in (1..MaxSide) \X (1..MaxSide) : s[1] * s[2] <= MaxArea}

SizeOf(image) == <<Width(image), Height(image)>>

Images(mode, Pixels, size) ==
    {[mode |-> mode, rows |-> r] : r \in [1..size[2] -> [1..size[1] -> Pixels]]}

\* blank, an opaque colour, a half-transparent colour
BackgroundPixels == {<<0, 0, 0, 0>>, <<200, 100, 50, 255>>, <<10, 20, 30, 128>>}

RGBPixels == {<<0, 0, 0>>, <<255, 255, 255>>, <<200, 100, 50>>}

\* what the fixed gray brush (#808080) and the eraser leave: untouched,
\* painted, and the partially opaque edge of a stroke
LayerPixels == {<<0, 0, 0, 0>>, <<128, 128, 128, 255>>, <<128, 128, 128, 100>>}

\* black, white, the lightest gray that is not white
MaskPixels == {<<0, 0, 0>>, <<255, 255, 255>>, <<254, 254, 254>>}

Masks(size) == [1..size[2] -> [1..size[1] -> BOOLEAN]]

\* A layer whose pixels are all the same
UniformLayers(size) ==
    {[mode |-> "RGBA", rows |-> [y \in 1..size[2] |-> [x \in 1..size[1] |-> p]]] :
        p \in {<<0, 0, 0, 0>>, <<128, 128, 128, 255>>}}

\* Layer lists of at most n layers of one size: any first layer, uniform others
LayerLists(size, n) ==
    {<<>>} \cup
    UNION {{<<l>> \o rest : l \in Images("RGBA", LayerPixels, size),
                            rest \in [1..k -> UniformLayers(size)]} : k \in 0..(n - 1)}

NoImage == [mode |-> "none", rows |-> <<>>]

NoCall == [fn |-> "none", args |-> <<>>, out |-> Raise("none")]

\* Values of the colour picker: its initial value (#20ff03) and rgba() texts
InitialColor == <<"#", "2", "0", "f", "f", "0", "3">>

PickerColors ==
    {InitialColor,
     <<"r","g","b","a","(","2","5","5",","," ","0",","," ","0",","," ","1",")">>,
     <<"r","g","b","a","(","1","2",".","5",","," ","9",".","9",","," ","3",","," ","1",")">>}

\* Texts of one comma-separated field: empty, integers in and out of the
\* 8-bit range, a negative number, a float, a padded number, not a number
FieldTexts ==
    {<<>>, <<"0">>, <<"3", "0", "0">>, <<"-", "5">>, <<"2", "0", ".", "6">>,
     <<" ", "1", "0", " ">>, <<"x">>}

RECURSIVE Join(_)
\* ",".join(fields)
Join(fields) ==
    IF fields = <<>> THEN <<>>
    ELSE IF Len(fields) = 1 THEN fields[1]
    ELSE fields[1] \o <<",">> \o Join(Tail(fields))

FixedColorStrings ==
    PickerColors \cup
    {<<"#", "f", "f", "0", "0", "0", "0">>,
     <<"#", "F", "F", "0", "0", "0", "0">>,
     <<"#", "f", "0", "0">>,
     <<"#", "f", "f", "0", "0", "0", "0", "8", "0">>,
     <<"r", "e", "d">>,
     <<"R", "e", "d">>,
     <<"n", "o", "t", "-", "a", "-", "c", "o", "l", "o", "r">>,
     <<"r","g","b","a","(","1","0",","," ","2","0",".","6",","," ","3","0",","," ","0",".","5",")">>}

\* Every colour string tried: the fixed ones, and prefix + fields + suffix
ColorStrings ==
    FixedColorStrings \cup
    {p \o Join(fs) \o q :
        p \in {<<>>, <<"r", "g", "b", "(">>, <<"r", "g", "b", "a", "(">>},
        fs \in UNION {[1..k -> FieldTexts] : k \in 0..MaxFields},
        q \in {<<>>, <<")">>}}

-----------------------------------------------------------------------------
(* SpecColor: str_color_to_rgb called once on each colour string *)

InitColor ==
    /\ mask_color \in ColorStrings
    /\ canvas = [background |-> Image_new_RGBA(1, 1), layers |-> <<>>]
    /\ mask_image = NoImage
    /\ mask_visibility_image = NoImage
    /\ agnostic_image = NoImage
    /\ output_mask = NoImage
    /\ queue = <<>>
    /\ nevents = 0
    /\ call = NoCall

CallStrColorToRgb ==
    /\ call.fn = "none"
    /\ call' = [fn |-> "str_color_to_rgb", args |-> <<>>,
                out |-> str_color_to_rgb(mask_color)]
    /\ UNCHANGED <<canvas, mask_color, mask_image, mask_visibility_image,
                   agnostic_image, output_mask, queue, nevents>>

NextColor == CallStrColorToRgb

SpecColor == InitColor /\ [][NextColor]_vars

\* The spec's rgba(r, g, b, a) form: the wrapper, at least three fields, the
\* first three of them numbers
IsParseableRgba(s) ==
    /\ StartsWith(s, <<"r", "g", "b", "a", "(">>)
    /\ LET fields == Split(Strip(s, RgbaStripChars), ",")
       IN  /\ Len(fields) >= 3
           /\ \A i \in 1..3 : PyFloat(fields[i]).err = "none"

\* A string the library call accepts, or of the rgba form
Recognized(s) == ImageColor_getcolor(s).err = "none" \/ IsParseableRgba(s)

\* C1: for every input string str_color_to_rgb returns a triple and never
\* raises, and every string that is not recognized resolves to (0,0,255).
C1_ResolveNeverFails ==
    call.fn = "str_color_to_rgb" =>
        /\ call.out.err = "none"
        /\ ~Recognized(mask_color) => call.out.val = DefaultColor

\* C10: every channel of the triple str_color_to_rgb returns is in 0..255.
C10_ChannelsAreBytes ==
    (call.fn = "str_color_to_rgb" /\ call.out.err = "none") =>
        \A i \in 1..3 : IsByte(call.out.val[i])

-----------------------------------------------------------------------------
(* SpecViews: extract_mask, canvas_to_mask and canvas_to_agnostic called   *)
(* once on each dimension-consistent surface                                *)

InitViews ==
    /\ \E size \in Sizes :
        \E b \in Images("RGBA", BackgroundPixels, size), ls \in LayerLists(size, MaxLayers) :
            canvas = [background |-> b, layers |-> ls]
    /\ mask_color = InitialColor
    /\ mask_image = NoImage
    /\ mask_visibility_image = NoImage
    /\ agnostic_image = NoImage
    /\ output_mask = NoImage
    /\ queue = <<>>
    /\ nevents = 0
    /\ call = NoCall

CallExtractMask ==
    /\ call.fn = "none"
    /\ call' = [fn |-> "extract_mask", args |-> <<>>, out |-> Ok(extract_mask(canvas))]
    /\ UNCHANGED <<canvas, mask_color, mask_image, mask_visibility_image,
                   agnostic_image, output_mask, queue, nevents>>

CallCanvasToMask ==
    /\ call.fn = "none"
    /\ call' = [fn |-> "canvas_to_mask", args |-> <<>>, out |-> canvas_to_mask(canvas)]
    /\ UNCHANGED <<canvas, mask_color, mask_image, mask_visibility_image,
                   agnostic_image, output_mask, queue, nevents>>

CallCanvasToAgnostic ==
    /\ call.fn = "none"
    /\ call' = [fn |-> "canvas_to_agnostic", args |-> <<>>, out |-> canvas_to_agnostic(canvas)]
    /\ UNCHANGED <<canvas, mask_color, mask_image, mask_visibility_image,
                   agnostic_image, output_mask, queue, nevents>>

NextViews == CallExtractMask \/ CallCanvasToMask \/ CallCanvasToAgnostic

SpecViews == InitViews /\ [][NextViews]_vars

\* The positions <<y, x>> of a grid of rows
Positions(rows) == UNION {{<<y, x>> : x \in 1..Len(rows[y])} : y \in 1..Len(rows)}

SameShape(rowsA, rowsB) ==
    /\ Len(rowsA) = Len(rowsB)
    /\ \A y \in 1..Len(rowsA) : Len(rowsA[y]) = Len(rowsB[y])

\* C4: with layers, extract_mask gives a mask of layers[0]'s dimensions that
\* is true exactly where the alpha of layers[0] is 255 (whatever the later
\* layers hold); without layers, an all-false mask of the background's
\* dimensions.
C4_ExtractThresholdsFirstLayer ==
    call.fn = "extract_mask" =>
        LET mask == call.out.val
        IN  IF canvas.layers # <<>>
            THEN /\ SameShape(mask, canvas.layers[1].rows)
                 /\ \A yx \in Positions(mask) :
                        mask[yx[1]][yx[2]] = (canvas.layers[1].rows[yx[1]][yx[2]][4] = 255)
            ELSE /\ SameShape(mask, canvas.background.rows)
                 /\ \A yx \in Positions(mask) : mask[yx[1]][yx[2]] = FALSE

\* A partially opaque pixel of layers[0] lies under an opaque second layer
C4_Witness ==
    /\ call.fn = "extract_mask"
    /\ Len(canvas.layers) >= 2
    /\ \E yx \in Positions(call.out.val) :
        /\ canvas.layers[1].rows[yx[1]][yx[2]][4] \in 1..254
        /\ canvas.layers[2].rows[yx[1]][yx[2]][4] = 255
        /\ call.out.val[yx[1]][yx[2]] = FALSE
    /\ \E yx \in Positions(call.out.val) : call.out.val[yx[1]][yx[2]] = TRUE

\* C5: the binary mask is 255 exactly where extract_mask is true and 0
\* elsewhere; it holds no other value.
C5_BinaryMaskRoundTrip ==
    call.fn = "canvas_to_mask" =>
        /\ call.out.err = "none"
        /\ SameShape(call.out.val.rows, extract_mask(canvas))
        /\ \A yx \in Positions(call.out.val.rows) :
            LET v == call.out.val.rows[yx[1]][yx[2]]
            IN  /\ v \in {0, 255}
                /\ (v = 255) = extract_mask(canvas)[yx[1]][yx[2]]

\* A binary mask with a white and a black pixel
C5_Witness ==
    /\ call.fn = "canvas_to_mask"
    /\ \E yx \in Positions(call.out.val.rows) : call.out.val.rows[yx[1]][yx[2]] = 255
    /\ \E yx \in Positions(call.out.val.rows) : call.out.val.rows[yx[1]][yx[2]] = 0

\* C9: every pixel where extract_mask is true is exactly (128,128,128) in the
\* agnostic view, whatever the background pixel.
C9_AgnosticIsPureGray ==
    call.fn = "canvas_to_agnostic" =>
        /\ call.out.err = "none"
        /\ \A yx \in Positions(extract_mask(canvas)) :
            extract_mask(canvas)[yx[1]][yx[2]] =>
                call.out.val.rows[yx[1]][yx[2]] = <<128, 128, 128>>

\* Masked pixels over a half-transparent and over an opaque background pixel
C9_Witness ==
    /\ call.fn = "canvas_to_agnostic"
    /\ \E yx \in Positions(extract_mask(canvas)) :
        /\ extract_mask(canvas)[yx[1]][yx[2]]
        /\ canvas.background.rows[yx[1]][yx[2]] = <<10, 20, 30, 128>>
    /\ \E yx \in Positions(extract_mask(canvas)) :
        /\ extract_mask(canvas)[yx[1]][yx[2]]
        /\ canvas.background.rows[yx[1]][yx[2]] = <<200, 100, 50, 255>>

-----------------------------------------------------------------------------
(* SpecOverlay: apply_mask_as_transparent_overlayer called on each base     *)
(* image with each mask of its size, and the two overlay views called on   *)
(* each surface that has no layers                                          *)

\* Base images: the RGBA backgrounds of the editor, and RGB images
BaseImages(size) == Images("RGBA", BackgroundPixels, size) \cup Images("RGB", RGBPixels, size)

\* The default colour of the renderer, the picker's initial colour, gray
OverlayColors == {<<0, 255, 255>>, <<32, 255, 3>>, <<128, 128, 128>>}

\* Opacities in tenths: none, the default 0.7, full
Transparencies == {0, 7, 10}

InitOverlay ==
    /\ \E size \in Sizes : \E b \in BaseImages(size) :
        canvas = [background |-> b, layers |-> <<>>]
    /\ mask_color \in PickerColors
    /\ mask_image = NoImage
    /\ mask_visibility_image = NoImage
    /\ agnostic_image = NoImage
    /\ output_mask = NoImage
    /\ queue = <<>>
    /\ nevents = 0
    /\ call = NoCall

CallOverlayer ==
    /\ call.fn = "none"
    /\ \E mask \in Masks(SizeOf(canvas.background)), color \in OverlayColors,
          transparency \in Transparencies :
        call' = [fn |-> "apply_mask_as_transparent_overlayer",
                 args |-> [mask |-> mask, image |-> canvas.background,
                           rgb_mask_color |-> color, transparency |-> transparency],
                 out |-> apply_mask_as_transparent_overlayer(
                             mask, canvas.background, color, transparency)]
    /\ UNCHANGED <<canvas, mask_color, mask_image, mask_visibility_image,
                   agnostic_image, output_mask, queue, nevents>>

CallCanvasToMaskVisibility ==
    /\ call.fn = "none"
    /\ call' = [fn |-> "canvas_to_mask_visibility", args |-> <<>>,
                out |-> canvas_to_mask_visibility(canvas, mask_color)]
    /\ UNCHANGED <<canvas, mask_color, mask_image, mask_visibility_image,
                   agnostic_image, output_mask, queue, nevents>>

NextOverlay == CallOverlayer \/ CallCanvasToMaskVisibility \/ CallCanvasToAgnostic

SpecOverlay == InitOverlay /\ [][NextOverlay]_vars

\* C8: every pixel where the mask is false has in the overlay's output the
\* value of the base image converted to RGB; with no layers (an all-false
\* mask) the mask-visibility and agnostic views are the background converted
\* to RGB; the base image is left as it was passed in.
C8_UnmaskedPixelsKeepBase ==
    /\ call.fn = "apply_mask_as_transparent_overlayer" =>
        /\ call.out.err = "none"
        /\ SameShape(call.out.val.rows, call.args.image.rows)
        /\ \A yx \in Positions(call.args.mask) :
            ~call.args.mask[yx[1]][yx[2]] =>
                call.out.val.rows[yx[1]][yx[2]] =
                    ConvertToRGB(call.args.image).rows[yx[1]][yx[2]]
        /\ canvas.background = call.args.image
    /\ (call.fn \in {"canvas_to_mask_visibility", "canvas_to_agnostic"}
            /\ canvas.layers = <<>>) =>
        /\ call.out.err = "none"
        /\ call.out.val = ConvertToRGB(canvas.background)

\* An unmasked pixel beside a masked one that the overlay changed, over a
\* half-transparent base pixel
C8_Witness ==
    /\ call.fn = "apply_mask_as_transparent_overlayer"
    /\ call.out.err = "none"
    /\ \E yx \in Positions(call.args.mask) :
        /\ ~call.args.mask[yx[1]][yx[2]]
        /\ call.args.image.rows[yx[1]][yx[2]] = <<10, 20, 30, 128>>
    /\ \E yx \in Positions(call.args.mask) :
        /\ call.args.mask[yx[1]][yx[2]]
        /\ call.out.val.rows[yx[1]][yx[2]] # ConvertToRGB(call.args.image).rows[yx[1]][yx[2]]

-----------------------------------------------------------------------------
(* SpecImport: apply_mask_to_layer called once on each mask image and       *)
(* surface                                                                  *)

\* blank, and an opaque colour
EditorPixels == {<<0, 0, 0, 0>>, <<200, 100, 50, 255>>}

\* Surfaces with no layer or with one untouched or fully painted layer
ImportSurfaces ==
    UNION {{[background |-> b, layers |-> ls] :
                b \in Images("RGBA", EditorPixels, size),
                ls \in {<<>>} \cup {<<l>> : l \in UniformLayers(size)}} :
           size \in Sizes}

MaskImages(Pixels) == UNION {Images("RGB", Pixels, size) : size \in Sizes}

InitImport ==
    /\ canvas \in ImportSurfaces
    /\ mask_image \in MaskImages(MaskPixels)
    /\ mask_color = InitialColor
    /\ mask_visibility_image = NoImage
    /\ agnostic_image = NoImage
    /\ output_mask = NoImage
    /\ queue = <<>>
    /\ nevents = 0
    /\ call = NoCall

\* The caller's surface object is the one the function assigns to: its
\* background is replaced even when the layer assignment raises.
CallApplyMaskToLayer ==
    /\ call.fn = "none"
    /\ call' = [fn |-> "apply_mask_to_layer", args |-> [canvas |-> canvas],
                out |-> apply_mask_to_layer(mask_image, canvas)]
    /\ canvas' = IF call'.out.err = "none" THEN call'.out.val
                 ELSE [canvas EXCEPT !.background = BackgroundAfterCheck(mask_image, canvas)]
    /\ UNCHANGED <<mask_color, mask_image, mask_visibility_image,
                   agnostic_image, output_mask, queue, nevents>>

NextImport == CallApplyMaskToLayer

SpecImport == InitImport /\ [][NextImport]_vars

\* C2: apply_mask_to_layer completes without error on a surface with no
\* layers and returns a surface whose layers[0] is the new layer; on a
\* surface with layers it replaces layers[0] by the new layer.
C2_ImportSetsFirstLayer ==
    call.fn = "apply_mask_to_layer" =>
        /\ call.out.err = "none"
        /\ call.out.val.layers # <<>>
        /\ call.out.val.layers[1] = MaskLayer(mask_image)

\* C3: extract_mask of the surface apply_mask_to_layer returns is a mask of
\* the mask image's dimensions that is true exactly where the luminance of
\* the mask image is 255.
C3_ImportThenExtract ==
    call.fn = "apply_mask_to_layer" =>
        /\ call.out.err = "none"
        /\ LET mask == extract_mask(call.out.val)
           IN  /\ SameShape(mask, mask_image.rows)
               /\ \A yx \in Positions(mask) :
                    mask[yx[1]][yx[2]] = (Luminance(mask_image.rows[yx[1]][yx[2]]) = 255)

-----------------------------------------------------------------------------
(* Spec: the event wiring.  The editing surface reports strokes, the colour *)
(* picker reports changes, the mask component reports uploads; each event   *)
(* queues the handlers registered for it with the values its inputs hold    *)
(* at that moment, and the handlers run one at a time in the order queued.  *)
(* A handler that raises updates nothing.                                   *)

Invocation(fn, cv, color, mimg) == [fn |-> fn, canvas |-> cv, mask_color |-> color, mask_image |-> mimg]

\* canvas.change: the three listeners of lines 223-229, in registration order
CanvasChangeHandlers(cv, color) ==
    <<Invocation("canvas_to_mask_visibility", cv, color, NoImage),
      Invocation("canvas_to_agnostic", cv, color, NoImage),
      Invocation("canvas_to_mask", cv, color, NoImage)>>

\* The session starts when the editor reports its first value: a surface with
\* a background and at most one, untouched, layer.
Init ==
    /\ canvas \in {cv \in ImportSurfaces :
                      \A i \in 1..Len(cv.layers) : cv.layers[i] = Image_new_RGBA(Width(cv.background), Height(cv.background))}
    /\ mask_color = InitialColor
    /\ mask_image = NoImage
    /\ mask_visibility_image = NoImage
    /\ agnostic_image = NoImage
    /\ output_mask = NoImage
    /\ queue = CanvasChangeHandlers(canvas, mask_color)
    /\ nevents = 0
    /\ call = NoCall

\* A paint or erase stroke: the editor replaces the layer by one of the
\* background's size and reports the change.
Stroke ==
    /\ nevents < MaxEvents
    /\ \E layer \in Images("RGBA", {<<0, 0, 0, 0>>, <<128, 128, 128, 255>>}, SizeOf(canvas.background)) :
        /\ canvas.layers # <<layer>>
        /\ canvas' = [canvas EXCEPT !.layers = <<layer>>]
    /\ queue' = queue \o CanvasChangeHandlers(canvas', mask_color)
    /\ nevents' = nevents + 1
    /\ UNCHANGED <<mask_color, mask_image, mask_visibility_image, agnostic_image,
                   output_mask, call>>

\* mask_color.change (lines 218-222)
ColorChanged ==
    /\ nevents < MaxEvents
    /\ \E color \in PickerColors \ {mask_color} :
        /\ mask_color' = color
        /\ queue' = Append(queue, Invocation("canvas_to_mask_visibility", canvas, color, NoImage))
    /\ nevents' = nevents + 1
    /\ UNCHANGED <<canvas, mask_image, mask_visibility_image, agnostic_image,
                   output_mask, call>>

\* mask_image.upload (line 217)
MaskUploaded ==
    /\ nevents < MaxEvents
    /\ \E mimg \in MaskImages({<<0, 0, 0>>, <<255, 255, 255>>}) :
        /\ mask_image' = mimg
        /\ queue' = Append(queue, Invocation("apply_mask_to_layer", canvas, mask_color, mimg))
    /\ nevents' = nevents + 1
    /\ UNCHANGED <<canvas, mask_color, mask_visibility_image, agnostic_image,
                   output_mask, call>>

\* The upload handler: its result becomes the editor's value, which the
\* editor reports as a change.
RunApplyMaskToLayer ==
    /\ queue # <<>>
    /\ Head(queue).fn = "apply_mask_to_layer"
    /\ LET out == apply_mask_to_layer(Head(queue).mask_image, Head(queue).canvas)
       IN  IF out.err = "none"
           THEN /\ canvas' = out.val
                /\ queue' = Tail(queue) \o CanvasChangeHandlers(out.val, mask_color)
           ELSE /\ canvas' = canvas
                /\ queue' = Tail(queue)
    /\ UNCHANGED <<mask_color, mask_image, mask_visibility_image, agnostic_image,
                   output_mask, nevents, call>>

RunCanvasToMaskVisibility ==
    /\ queue # <<>>
    /\ Head(queue).fn = "canvas_to_mask_visibility"
    /\ LET out == canvas_to_mask_visibility(Head(queue).canvas, Head(queue).mask_color)
       IN  mask_visibility_image' = IF out.err = "none" THEN out.val ELSE mask_visibility_image
    /\ queue' = Tail(queue)
    /\ UNCHANGED <<canvas, mask_color, mask_image, agnostic_image, output_mask,
                   nevents, call>>

RunCanvasToAgnostic ==
    /\ queue # <<>>
    /\ Head(queue).fn = "canvas_to_agnostic"
    /\ LET out == canvas_to_agnostic(Head(queue).canvas)
       IN  agnostic_image' = IF out.err = "none" THEN out.val ELSE agnostic_image
    /\ queue' = Tail(queue)
    /\ UNCHANGED <<canvas, mask_color, mask_image, mask_visibility_image, output_mask,
                   nevents, call>>

RunCanvasToMask ==
    /\ queue # <<>>
    /\ Head(queue).fn = "canvas_to_mask"
    /\ LET out == canvas_to_mask(Head(queue).canvas)
       IN  output_mask' = IF out.err = "none" THEN out.val ELSE output_mask
    /\ queue' = Tail(queue)
    /\ UNCHANGED <<canvas, mask_color, mask_image, mask_visibility_image, agnostic_image,
                   nevents, call>>

Next ==
    \/ Stroke
    \/ ColorChanged
    \/ MaskUploaded
    \/ RunApplyMaskToLayer
    \/ RunCanvasToMaskVisibility
    \/ RunCanvasToAgnostic
    \/ RunCanvasToMask

Spec == Init /\ [][Next]_vars

\* The displayed image is what the view function returns
Shows(displayed, view) == view.err = "none" /\ view.val = displayed

\* C6: once every triggered handler has run, the three displayed outputs are
\* the derived views of the current surface and colour.
C6_ViewsAreCurrent ==
    queue = <<>> =>
        /\ Shows(mask_visibility_image, canvas_to_mask_visibility(canvas, mask_color))
        /\ Shows(agnostic_image, canvas_to_agnostic(canvas))
        /\ Shows(output_mask, canvas_to_mask(canvas))

\* C7: in every reachable surface, layers[0] has the width and height of the
\* background.
C7_LayerMatchesBackground ==
    canvas.layers # <<>> => SameSize(canvas.layers[1], canvas.background)

=============================================================================
